---- MODULE Spec2Model ----
(***************************************************************************)
(* The job dispatch queue of the hybrid CI/CD control plane:               *)
(* InMemoryJobQueueStore (backend/src/db/queue_store.py), the QueuedJob    *)
(* record (backend/src/db/queue_models.py) and the claim link of the       *)
(* Dispatch API (backend/src/components/links/queue_links.py).             *)
(*                                                                         *)
(* Every store method is an `async def` without an await in its body, so   *)
(* under the asyncio event loop each call runs to completion before any    *)
(* other call starts: one call is one action, and concurrent callers are   *)
(* the interleavings of these actions.                                     *)
(*                                                                         *)
(* A method is an operator from the store and the call's arguments to the  *)
(* store it leaves, the value it returns and the exception it raises; the  *)
(* action of a call commits the store the operator computes.               *)
(*                                                                         *)
(* datetime.utcnow() is the variable now, advanced by Tick; two calls may  *)
(* read the same instant.  The opaque payload (job_type, git fields,       *)
(* tags, timeout_seconds) and the bookkeeping stamps created_at and        *)
(* updated_at are read by no operation and are left out of the record.     *)
(* job_id is supplied by the caller and unique (spec, data model), so      *)
(* jobs are numbered in the order of their enqueue: job i is the i-th      *)
(* key of the dict _jobs, which Python iterates in insertion order.        *)
(***************************************************************************)
EXTENDS Integers, Sequences, FiniteSets, TLC

\* ---- bounds of the model ----
MaxJobs == 2
MaxTime == 1
MaxLease == 0
MaxCalls == 5
MaxBatch == 3
\* the session store: at most MaxSessions sessions are created, the Unix
\* clock runs to MaxUnixTime, a session lives at most MaxTtl seconds
MaxSessions == 3
MaxUnixTime == 3
MaxTtl == 2

\* ---- program constants ----
DefaultLease == 30
LinkDefaultLease == 30

\* Python's None, for the fields and results that otherwise hold a number
\* (an instant, a count of seconds, an exit code, a job id) ...
None == -1
\* ... and for those that otherwise hold a string (an agent id, a message)
NoneStr == "None"
\* list.remove(x) when x is not in the list
ValueError == "ValueError"
NoError == "NoError"

JobIds == 1..MaxJobs
Pools == {"prod", "staging"}
Agents == {"agent-1", "agent-2"}

QUEUED == "queued"
CLAIMED == "claimed"
RUNNING == "running"
COMPLETED == "completed"
FAILED == "failed"
DEAD_LETTERED == "dead_lettered"
JobQueueStatus == {QUEUED, CLAIMED, RUNNING, COMPLETED, FAILED, DEAD_LETTERED}

LOW == "low"
NORMAL == "normal"
HIGH == "high"
CRITICAL == "critical"
JobQueuePriority == {LOW, NORMAL, HIGH, CRITICAL}

\* the jobs the dashboard submits: (pool_name, priority, max_attempts).
\* max_attempts is any integer the caller sends: neither the enqueue route
\* nor EnqueueJobLink.call checks its sign.
JobRequests ==
    { <<"prod", LOW, 2>>, <<"prod", NORMAL, 2>>, <<"prod", HIGH, 1>>,
      <<"prod", CRITICAL, -1>>, <<"staging", NORMAL, 2>> }

\* lease_duration_seconds as a caller passes it: a number, or not at all
LeaseArgs == (0..MaxLease) \cup {None}
\* (exit_code, duration_seconds, error_message) as an agent reports them
CompleteArgs ==
    { [exit_code |-> 0, duration_seconds |-> 5, error_message |-> NoneStr],
      [exit_code |-> 1, duration_seconds |-> 0, error_message |-> "boom"] }

VARIABLES
    jobs,             \* _jobs: the job table; jobs[i] is the record of job i
    queue_by_status,  \* _queue_by_status: status -> list of job ids
    queue_by_pool,    \* _queue_by_pool: pool name -> list of job ids
    now,              \* datetime.utcnow()
    calls,            \* the calls made so far that changed the store
    last_claimant,    \* history: per job, the agent to whom claim last
                      \* returned it (NoneStr before any claim)
    retries,          \* history: per job, the FAILED -> QUEUED transitions
                      \* it has made so far
    sessions,         \* InMemorySessionStore._sessions: session id -> token
    unix_now,         \* int(datetime.utcnow().timestamp())
    ttl_seconds,      \* settings.session_ttl_seconds
    issued,           \* history: the tokens create_session has returned, in
                      \* order; token i has session id i
    invalidated       \* history: the ids invalidate_session has deleted

session_vars == <<sessions, unix_now, ttl_seconds, issued, invalidated>>
queue_vars ==
    <<jobs, queue_by_status, queue_by_pool, now, calls, last_claimant, retries>>
vars ==
    <<jobs, queue_by_status, queue_by_pool, now, calls, last_claimant, retries,
      sessions, unix_now, ttl_seconds, issued, invalidated>>

\* the store as one value
Store ==
    [jobs |-> jobs, queue_by_status |-> queue_by_status,
     queue_by_pool |-> queue_by_pool]

\* what a call leaves and gives back: the store, the value returned (a job's
\* id for a job, None for no job, a count for the sweep) and the exception
Return(st, result, error) == [store |-> st, result |-> result, error |-> error]

\* ---- job lookup ----
\* a lookup self._jobs[job_id] that raises for an unknown id
NotFound_Raising(st) == Return(st, None, "KeyError")

\* job = self._jobs.get(job_id); if not job: return None
NotFound(st) == Return(st, None, NoError)

\* InMemoryJobQueueStore.get_job
get_job(st, job_id) ==
    IF job_id > Len(st.jobs) THEN NotFound(st) ELSE Return(st, job_id, NoError)

\* ---- QueuedJob ----
QueuedJob(job_id, pool_name, priority, max_attempts, t) ==
    [ job_id |-> job_id,
      pool_name |-> pool_name,
      priority |-> priority,
      status |-> QUEUED,
      queued_at |-> t,
      claimed_at |-> None,
      started_at |-> None,
      completed_at |-> None,
      claimed_by_agent |-> NoneStr,
      claimed_lease_expires_at |-> None,
      attempt |-> 1,
      max_attempts |-> max_attempts,
      error_message |-> NoneStr,
      exit_code |-> None,
      duration_seconds |-> None ]

is_lease_expired(job, t) ==
    IF job.claimed_lease_expires_at = None
    THEN FALSE
    ELSE t > job.claimed_lease_expires_at

\* a job that may never be retried
can_retry_Never(job) == FALSE

\* one retry more than max_attempts allows
can_retry_Inclusive(job) == job.attempt <= job.max_attempts

can_retry(job) == job.attempt < job.max_attempts

\* ---- list helpers (Python list semantics) ----
InList(s, x) == \E i \in 1..Len(s) : s[i] = x

RECURSIVE Remove(_, _)
\* list.remove(x): drops the first occurrence of x
Remove(s, x) ==
    IF s = <<>> THEN <<>>
    ELSE IF Head(s) = x THEN Tail(s)
    ELSE <<Head(s)>> \o Remove(Tail(s), x)

\* ---- enqueue ----
\* EnqueueJobLink.call builds the QueuedJob (attempt 1, no claim, no result)
\* and InMemoryJobQueueStore.enqueue_job inserts it. job_id is new to the
\* store: the dashboard supplies unique ids.

\* an enqueue that stamps every record with the new queued_at
enqueue_job_Restamping(st, job) ==
    Return([jobs |->
                Append([i \in DOMAIN st.jobs |->
                            [st.jobs[i] EXCEPT !.queued_at = job.queued_at]],
                       job),
            queue_by_status |->
                [st.queue_by_status EXCEPT ![QUEUED] = Append(@, job.job_id)],
            queue_by_pool |->
                [st.queue_by_pool EXCEPT
                    ![job.pool_name] = Append(@, job.job_id)]],
           job.job_id, NoError)

\* InMemoryJobQueueStore.enqueue_job
enqueue_job(st, job) ==
    Return([jobs |-> Append(st.jobs, job),
            queue_by_status |->
                [st.queue_by_status EXCEPT ![QUEUED] = Append(@, job.job_id)],
            queue_by_pool |->
                [st.queue_by_pool EXCEPT
                    ![job.pool_name] = Append(@, job.job_id)]],
           job.job_id, NoError)

\* ---- enqueue link ----
\* a context the dashboard hands to EnqueueJobLink.call; a key that is
\* absent reads as None
EnqueueRequest(job_id, job_type, pool_name, priority, max_attempts) ==
    [ job_id |-> job_id, job_type |-> job_type, pool_name |-> pool_name,
      priority |-> priority, max_attempts |-> max_attempts ]

\* bool(x) for a string or None
Falsy(x) == x = NoneStr \/ x = ""

\* a validation that forgets job_type
HasRequiredFields_NoJobType(req) ==
    /\ req.job_id # None
    /\ ~Falsy(req.pool_name)

\* all([job_id, job_type, pool_name])
HasRequiredFields(req) ==
    /\ req.job_id # None
    /\ ~Falsy(req.job_type)
    /\ ~Falsy(req.pool_name)

\* JobQueuePriority(ctx.get("priority") or "normal"), NORMAL on ValueError
ParsePriority(p) ==
    IF Falsy(p) THEN NORMAL
    ELSE IF p \in JobQueuePriority THEN p
    ELSE NORMAL

\* ctx.get("max_attempts") when the context has no such key; a number of
\* its own, because -1 is a max_attempts a caller can send
Absent == -1000

\* ctx.get("max_attempts") or 3
LinkMaxAttempts(m) == IF m = Absent \/ m = 0 THEN 3 ELSE m

MissingRequiredFields == "Missing required fields: job_id, job_type, pool_name"

\* EnqueueJobLink.call
enqueue_job_link(st, req, t) ==
    IF ~HasRequiredFields(req)
    THEN Return(st, None, MissingRequiredFields)
    ELSE enqueue_job(st, QueuedJob(req.job_id, req.pool_name,
                                   ParsePriority(req.priority),
                                   LinkMaxAttempts(req.max_attempts), t))

\* ---- claim ----
priority_order(p) ==
    CASE p = CRITICAL -> 4
      [] p = HIGH -> 3
      [] p = NORMAL -> 2
      [] p = LOW -> 1
      [] OTHER -> 0

\* the key without the minus sign: lowest priority first
KeyLess_LowestFirst(a, b) ==
    \/ priority_order(a.priority) < priority_order(b.priority)
    \/ /\ priority_order(a.priority) = priority_order(b.priority)
       /\ a.queued_at < b.queued_at

\* the key with the second component negated: newest first within a priority
KeyLess_NewestFirst(a, b) ==
    \/ (0 - priority_order(a.priority)) < (0 - priority_order(b.priority))
    \/ /\ priority_order(a.priority) = priority_order(b.priority)
       /\ a.queued_at > b.queued_at

\* a key that puts the jobs never claimed before ahead of the others
KeyLess_FreshFirst(a, b) ==
    \/ (0 - priority_order(a.priority)) < (0 - priority_order(b.priority))
    \/ /\ priority_order(a.priority) = priority_order(b.priority)
       /\ \/ a.claimed_at = None /\ a.attempt = 1
             /\ (b.claimed_at # None \/ b.attempt > 1)
          \/ /\ (a.claimed_at = None /\ a.attempt = 1)
                    = (b.claimed_at = None /\ b.attempt = 1)
             /\ a.queued_at < b.queued_at

\* the sort key of claim_job: (-priority_order, queued_at), compared as tuples
KeyLess(a, b) ==
    \/ (0 - priority_order(a.priority)) < (0 - priority_order(b.priority))
    \/ /\ priority_order(a.priority) = priority_order(b.priority)
       /\ a.queued_at < b.queued_at

RECURSIVE InsertSorted(_, _, _)
\* x goes before the first element whose key is greater: equal keys keep
\* their order (list.sort is stable)
InsertSorted(js, sorted, x) ==
    IF sorted = <<>> THEN <<x>>
    ELSE IF KeyLess(js[x], js[Head(sorted)]) THEN <<x>> \o sorted
    ELSE <<Head(sorted)>> \o InsertSorted(js, Tail(sorted), x)

RECURSIVE SortByKey(_, _, _)
SortByKey(js, todo, sorted) ==
    IF todo = <<>> THEN sorted
    ELSE SortByKey(js, Tail(todo), InsertSorted(js, sorted, Head(todo)))

\* a filter that also takes the jobs another agent holds
IsClaimable_Unfinished(job) == job.status \in {QUEUED, CLAIMED, RUNNING}

\* the filter of claim_job
IsClaimable(job) == job.status = QUEUED

\* a candidate list that ignores the pool asked for
PoolQueue_AllPools(qbp, pool_name) == qbp["prod"] \o qbp["staging"]

\* self._queue_by_pool.get(pool_name, [])
PoolQueue(qbp, pool_name) == qbp[pool_name]

\* queued_jobs of claim_job, as job ids, before the sort
queued_jobs(st, pool_name) ==
    SelectSeq(PoolQueue(st.queue_by_pool, pool_name),
              LAMBDA jid : IsClaimable(st.jobs[jid]))

\* a claim that records no lease
LeaseExpiry_Unset(t, lease_duration_seconds) == None

\* datetime.utcnow() + timedelta(seconds=lease_duration_seconds)
LeaseExpiry(t, lease_duration_seconds) == t + lease_duration_seconds

claim_job(st, agent_id, pool_name, lease_duration_seconds, t) ==
    LET cands == queued_jobs(st, pool_name) IN
    IF cands = <<>>
    THEN Return(st, None, NoError)
    ELSE
      LET jid == Head(SortByKey(st.jobs, cands, <<>>))
          claimed == [st.jobs EXCEPT ![jid] =
                        [@ EXCEPT !.status = CLAIMED,
                                  !.claimed_by_agent = agent_id,
                                  !.claimed_at = t,
                                  !.claimed_lease_expires_at =
                                      LeaseExpiry(t, lease_duration_seconds)]]
      IN
      \* the remove of the tracking update raises when the id is not listed
      IF InList(st.queue_by_status[QUEUED], jid)
      THEN Return([st EXCEPT
                     !.jobs = claimed,
                     !.queue_by_status =
                         [@ EXCEPT ![QUEUED] = Remove(@, jid),
                                   ![CLAIMED] = Append(@, jid)]],
                  jid, NoError)
      ELSE Return([st EXCEPT !.jobs = claimed], None, ValueError)

\* lease_duration_seconds: int = 30
StoreLease(leaseArg) == IF leaseArg = None THEN DefaultLease ELSE leaseArg

\* ctx.get("lease_duration_seconds") or 30
LinkLease(leaseArg) ==
    IF leaseArg = None \/ leaseArg = 0 THEN LinkDefaultLease ELSE leaseArg

\* ClaimJobLink.call: the claim as the Dispatch API makes it
claim_job_link(st, agent_id, pool_name, leaseArg, t) ==
    claim_job(st, agent_id, pool_name, LinkLease(leaseArg), t)

\* ---- start ----
\* a start that does not look at the claimant
IsClaimant_Anyone(job, agent_id) == TRUE

\* job.claimed_by_agent == agent_id
IsClaimant(job, agent_id) == job.claimed_by_agent = agent_id

\* a start that also renews the lease
Started_RenewingLease(job, t) ==
    [job EXCEPT !.status = RUNNING, !.started_at = t,
                !.claimed_lease_expires_at = t + DefaultLease]

\* job.status = RUNNING; job.started_at = datetime.utcnow()
Started(job, t) == [job EXCEPT !.status = RUNNING, !.started_at = t]

start_job(st, job_id, agent_id, t) ==
    IF job_id > Len(st.jobs) \/ ~IsClaimant(st.jobs[job_id], agent_id)
    THEN Return(st, None, NoError)
    ELSE Return([st EXCEPT
                   !.jobs[job_id] = Started(@, t),
                   !.queue_by_status =
                       LET q == IF InList(@[CLAIMED], job_id)
                                THEN [@ EXCEPT ![CLAIMED] = Remove(@, job_id)]
                                ELSE @
                       IN  [q EXCEPT ![RUNNING] = Append(@, job_id)]],
                job_id, NoError)

\* ---- complete ----
\* a completion that ignores the exit code
CompletionStatus_AlwaysCompleted(exit_code) == COMPLETED

\* COMPLETED if exit_code == 0 else FAILED
CompletionStatus(exit_code) == IF exit_code = 0 THEN COMPLETED ELSE FAILED

complete_job(st, job_id, exit_code, duration_seconds, error_message, t) ==
    IF job_id > Len(st.jobs)
    THEN NotFound(st)
    ELSE LET status == CompletionStatus(exit_code) IN
         Return([st EXCEPT
                   !.jobs[job_id] =
                       [@ EXCEPT !.status = status,
                                 !.exit_code = exit_code,
                                 !.duration_seconds = duration_seconds,
                                 !.error_message = error_message,
                                 !.completed_at = t],
                   !.queue_by_status =
                       LET q == IF InList(@[RUNNING], job_id)
                                THEN [@ EXCEPT ![RUNNING] = Remove(@, job_id)]
                                ELSE @
                       IN  [q EXCEPT ![status] = Append(@, job_id)]],
                job_id, NoError)

\* ---- requeue expired leases ----
\* a sweep that looks at the lease alone
NeedsRequeue_AnyStatus(job, t) == is_lease_expired(job, t)

\* the condition of the sweep
NeedsRequeue(job, t) == job.status = CLAIMED /\ is_lease_expired(job, t)

RECURSIVE RequeueFrom(_, _, _, _)
\* the loop over self._jobs.values(), from job i on; the remove of the
\* tracking update raises when the id is not listed and ends the loop
RequeueFrom(i, st, count, t) ==
    IF i > Len(st.jobs)
    THEN Return(st, count, NoError)
    ELSE IF ~NeedsRequeue(st.jobs[i], t)
    THEN RequeueFrom(i + 1, st, count, t)
    ELSE LET requeued == [st.jobs EXCEPT ![i] =
                            [@ EXCEPT !.status = QUEUED,
                                      !.claimed_by_agent = NoneStr,
                                      !.claimed_lease_expires_at = None]]
         IN  IF ~InList(st.queue_by_status[CLAIMED], i)
             THEN Return([st EXCEPT !.jobs = requeued], None, ValueError)
             ELSE RequeueFrom(i + 1,
                              [st EXCEPT
                                 !.jobs = requeued,
                                 !.queue_by_status =
                                     [@ EXCEPT ![CLAIMED] = Remove(@, i),
                                               ![QUEUED] = Append(@, i)]],
                              count + 1, t)

\* a sweep that stamps the jobs it re-queues with a new queued_at
requeue_expired_leases_Restamping(st, t) ==
    LET r == RequeueFrom(1, st, 0, t) IN
    [r EXCEPT !.store.jobs =
        [i \in DOMAIN r.store.jobs |->
            IF r.store.jobs[i].status # st.jobs[i].status
            THEN [r.store.jobs[i] EXCEPT !.queued_at = t]
            ELSE r.store.jobs[i]]]

\* InMemoryJobQueueStore.requeue_expired_leases
requeue_expired_leases(st, t) == RequeueFrom(1, st, 0, t)

\* ---- retry or dead-letter ----
retry_failed_job(st, job_id) ==
    IF job_id > Len(st.jobs)
    THEN NotFound(st)
    ELSE IF ~can_retry(st.jobs[job_id])
    THEN IF st.jobs[job_id].status = FAILED
         THEN LET dead == [st EXCEPT !.jobs[job_id].status = DEAD_LETTERED] IN
              IF InList(st.queue_by_status[FAILED], job_id)
              THEN Return([dead EXCEPT
                             !.queue_by_status =
                                 [@ EXCEPT
                                    ![FAILED] = Remove(@, job_id),
                                    ![DEAD_LETTERED] = Append(@, job_id)]],
                          None, NoError)
              ELSE Return(dead, None, ValueError)
         ELSE Return(st, None, NoError)
    ELSE LET reset == [st EXCEPT !.jobs[job_id] =
                         [@ EXCEPT !.attempt = @ + 1,
                                   !.status = QUEUED,
                                   !.claimed_by_agent = NoneStr,
                                   !.claimed_at = None,
                                   !.claimed_lease_expires_at = None,
                                   !.started_at = None,
                                   !.completed_at = None,
                                   !.exit_code = None,
                                   !.duration_seconds = None,
                                   !.error_message = NoneStr]]
         IN  IF InList(st.queue_by_status[FAILED], job_id)
             THEN Return([reset EXCEPT
                            !.queue_by_status =
                                [@ EXCEPT ![FAILED] = Remove(@, job_id),
                                          ![QUEUED] = Append(@, job_id)]],
                         job_id, NoError)
             ELSE Return(reset, None, ValueError)

\* ---- lists ----
\* limit: int = 100
DefaultLimit == 100

TypeError == "TypeError"

Min(a, b) == IF a < b THEN a ELSE b

\* if pool_name: jobs = [j for j in jobs if j.pool_name == pool_name]
InPool(st, ids, pool_name) ==
    IF Falsy(pool_name) THEN ids
    ELSE SelectSeq(ids, LAMBDA jid : st.jobs[jid].pool_name = pool_name)

\* a listing that sorts the QUEUED list of the index itself
list_queued_jobs_SortingIndex(st, pool_name, limit) ==
    LET sorted == SortByKey(st.jobs, st.queue_by_status[QUEUED], <<>>)
    IN  Return([st EXCEPT !.queue_by_status[QUEUED] = sorted],
               SubSeq(sorted, 1, Min(limit, Len(sorted))), NoError)

\* the list comprehension builds a new list, which is the one sorted;
\* InMemoryJobQueueStore.list_queued_jobs; the result is the list of the
\* ids of the jobs returned
list_queued_jobs(st, pool_name, limit) ==
    LET ids == InPool(st, st.queue_by_status[QUEUED], pool_name)
        sorted == SortByKey(st.jobs, ids, <<>>)
    IN  Return(st, SubSeq(sorted, 1, Min(limit, Len(sorted))), NoError)

\* j.started_at or j.claimed_at
RunningKey(job) ==
    IF job.started_at # None THEN job.started_at ELSE job.claimed_at

RECURSIVE InsertByRunningKey(_, _, _)
InsertByRunningKey(js, sorted, x) ==
    IF sorted = <<>> THEN <<x>>
    ELSE IF RunningKey(js[x]) < RunningKey(js[Head(sorted)])
    THEN <<x>> \o sorted
    ELSE <<Head(sorted)>> \o InsertByRunningKey(js, Tail(sorted), x)

RECURSIVE SortByRunningKey(_, _, _)
SortByRunningKey(js, todo, sorted) ==
    IF todo = <<>> THEN sorted
    ELSE SortByRunningKey(js, Tail(todo),
                          InsertByRunningKey(js, sorted, Head(todo)))

\* InMemoryJobQueueStore.list_running_jobs; sorting two or more jobs
\* compares their keys, and a key that is None does not compare
list_running_jobs(st, pool_name) ==
    LET ids == InPool(st, st.queue_by_status[RUNNING], pool_name) IN
    IF  /\ Len(ids) > 1
        /\ \E k \in 1..Len(ids) : RunningKey(st.jobs[ids[k]]) = None
    THEN Return(st, None, TypeError)
    ELSE Return(st, SortByRunningKey(st.jobs, ids, <<>>), NoError)

\* j.claimed_at or j.queued_at
AgentKey(job) ==
    IF job.claimed_at # None THEN job.claimed_at ELSE job.queued_at

RECURSIVE InsertByAgentKey(_, _, _)
\* sort(reverse=True): x goes before the first element with a smaller key;
\* equal keys keep their order
InsertByAgentKey(js, sorted, x) ==
    IF sorted = <<>> THEN <<x>>
    ELSE IF AgentKey(js[Head(sorted)]) < AgentKey(js[x])
    THEN <<x>> \o sorted
    ELSE <<Head(sorted)>> \o InsertByAgentKey(js, Tail(sorted), x)

RECURSIVE SortByAgentKey(_, _, _)
SortByAgentKey(js, todo, sorted) ==
    IF todo = <<>> THEN sorted
    ELSE SortByAgentKey(js, Tail(todo),
                        InsertByAgentKey(js, sorted, Head(todo)))

\* InMemoryJobQueueStore.list_agent_jobs
list_agent_jobs(st, agent_id) ==
    LET ids == SelectSeq([i \in 1..Len(st.jobs) |-> i],
                         LAMBDA jid : st.jobs[jid].claimed_by_agent = agent_id)
    IN  Return(st, SortByAgentKey(st.jobs, ids, <<>>), NoError)

\* ---- statistics ----
\* a float that is the quotient of two integers, kept as the pair
Fraction(num, den) == [num |-> num, den |-> den]
\* 0.0
Zero == Fraction(0, 1)

RECURSIVE Sum(_)
Sum(s) == IF s = <<>> THEN 0 ELSE Head(s) + Sum(Tail(s))

RECURSIVE InsertNumber(_, _)
InsertNumber(sorted, x) ==
    IF sorted = <<>> THEN <<x>>
    ELSE IF x < Head(sorted) THEN <<x>> \o sorted
    ELSE <<Head(sorted)>> \o InsertNumber(Tail(sorted), x)

RECURSIVE Sorted(_)
\* sorted(list of numbers)
Sorted(s) == IF s = <<>> THEN <<>> ELSE InsertNumber(Sorted(Tail(s)), Head(s))

\* all_finished = completed_jobs + failed_jobs, as job ids
all_finished(st) ==
    st.queue_by_status[COMPLETED] \o st.queue_by_status[FAILED]

\* the jobs of all_finished whose wait is measured: ... if j.claimed_at
wait_jobs(st) ==
    SelectSeq(all_finished(st), LAMBDA jid : st.jobs[jid].claimed_at # None)

\* wait_times = [(j.claimed_at - j.queued_at).total_seconds() ...]
wait_times(st) ==
    LET ids == wait_jobs(st) IN
    [k \in 1..Len(ids) |->
        st.jobs[ids[k]].claimed_at - st.jobs[ids[k]].queued_at]

\* execution_times = [j.duration_seconds or 0 ... if j.duration_seconds]
execution_times(st) ==
    LET ids == SelectSeq(all_finished(st),
                         LAMBDA jid : st.jobs[jid].duration_seconds # None
                                      /\ st.jobs[jid].duration_seconds # 0)
    IN  [k \in 1..Len(ids) |-> st.jobs[ids[k]].duration_seconds]

\* sum(xs) / len(xs) if xs else 0.0
Average(xs) == IF xs = <<>> THEN Zero ELSE Fraction(Sum(xs), Len(xs))

\* (failed + dead_lettered) / total_finished if total_finished > 0 else 0.0
FailureRate(completed, failed, dead_lettered) ==
    LET total_finished == completed + failed + dead_lettered IN
    IF total_finished > 0
    THEN Fraction(failed + dead_lettered, total_finished)
    ELSE Zero

\* wait_times[min(int(len(wait_times) * 0.95), len(wait_times) - 1)] of the
\* sorted list (Python indexes from 0), 0.0 for an empty one
Percentile95(xs) ==
    IF xs = <<>> THEN 0
    ELSE LET idx == (Len(xs) * 95) \div 100
         IN  Sorted(xs)[Min(idx, Len(xs) - 1) + 1]

\* InMemoryJobQueueStore.get_queue_stats
get_queue_stats(st) ==
    LET total(status) == Len(st.queue_by_status[status]) IN
    Return(st,
           [ total_queued |-> total(QUEUED),
             total_claimed |-> total(CLAIMED),
             total_running |-> total(RUNNING),
             total_completed |-> total(COMPLETED),
             total_failed |-> total(FAILED),
             total_dead_lettered |-> total(DEAD_LETTERED),
             avg_queue_wait_seconds |-> Average(wait_times(st)),
             avg_execution_seconds |-> Average(execution_times(st)),
             failure_rate |-> FailureRate(total(COMPLETED), total(FAILED),
                                          total(DEAD_LETTERED)),
             p95_queue_wait |-> Percentile95(wait_times(st)) ],
           NoError)

\* ---- the Dispatch API: chains ----
\* The chains hand their links to codeuchain.core.Chain, a library outside
\* the repository. What Chain.run does with the links and connections it
\* was given is one of:
\*   "linear"          every link is called, in the order it was added;
\*   "routed"          a link is called when a connection leading to it has
\*                     a predicate that holds; a predicate that raises
\*                     counts as not holding;
\*   "routed_raising"  as "routed", but a predicate that raises ends the
\*                     run with that exception.
ChainSemantics == {"linear", "routed", "routed_raising"}

AttributeError == "AttributeError"
JobNotFound == "Job not found"

\* RetryFailedJobLink.call after CompleteJobLink.call put a job in the
\* context: the response of CompleteChain.run, retried = not cannot_retry
RetryLinkResponse(r) ==
    IF r.error # NoError
    THEN Return(r.store, None, r.error)
    ELSE Return(r.store, [retried |-> r.result # None], NoError)

\* CompleteChain.run as the complete route calls it. The predicate of the
\* connection complete -> check_retry calls .get on the QueuedJob in the
\* context, which raises AttributeError.
CompleteChain(st, job_id, exit_code, duration_seconds, error_message, t, sem) ==
    LET c == complete_job(st, job_id, exit_code, duration_seconds,
                          error_message, t)
    IN  IF c.result = None THEN Return(c.store, None, JobNotFound)
        ELSE IF sem = "linear"
        THEN RetryLinkResponse(retry_failed_job(c.store, job_id))
        ELSE IF sem = "routed"
        THEN Return(c.store, [retried |-> TRUE], NoError)
        ELSE Return(c.store, None, AttributeError)

\* the answer of POST /api/queue/claim
ClaimResponse(no_jobs_available, job) ==
    [no_jobs_available |-> no_jobs_available, job |-> job]

\* ClaimChain.run and the claim route on top of it. The predicate of the
\* connection claim -> serialize is `not (... or True)`, which never
\* holds and never raises; job_response is written by SerializeJobLink
\* alone, and the route answers it when no_jobs_available is false.
ClaimChain(st, agent_id, pool_name, leaseArg, t, sem) ==
    LET c == claim_job_link(st, agent_id, pool_name, leaseArg, t) IN
    IF c.error # NoError THEN Return(c.store, None, c.error)
    ELSE IF c.result = None
    THEN Return(c.store, ClaimResponse(TRUE, None), NoError)
    ELSE IF sem = "linear"
    THEN Return(c.store, ClaimResponse(FALSE, c.result), NoError)
    ELSE Return(c.store, ClaimResponse(FALSE, None), NoError)

\* ---- the session store ----
Users == {"user123", "user456"}
SessionIds == 1..MaxSessions
SessionTtls == 0..MaxTtl

\* SessionToken.create; session_id stands for the fresh uuid4
SessionToken_create(session_id, user_id, ttl, t) ==
    [session_id |-> session_id, user_id |-> user_id,
     created_at |-> t, expires_at |-> t + ttl]

is_expired_AfterExpiry(session, t) == t > session.expires_at

is_expired(session, t) == t >= session.expires_at

\* del self._sessions[session_id]
Delete(st, ids) == [s \in DOMAIN st \ ids |-> st[s]]

create_session(st, session_id, user_id, ttl, t) ==
    LET session == SessionToken_create(session_id, user_id, ttl, t) IN
    Return([s \in DOMAIN st \cup {session_id} |->
               IF s = session_id THEN session ELSE st[s]],
           session_id, NoError)

\* the result is the id of the session returned, or None
validate_session(st, session_id, t) ==
    IF session_id \in DOMAIN st /\ ~is_expired(st[session_id], t)
    THEN Return(st, session_id, NoError)
    ELSE IF session_id \in DOMAIN st
    THEN Return(Delete(st, {session_id}), None, NoError)
    ELSE Return(st, None, NoError)

invalidate_session(st, session_id) ==
    IF session_id \in DOMAIN st
    THEN Return(Delete(st, {session_id}), TRUE, NoError)
    ELSE Return(st, FALSE, NoError)

\* the result is the set of ids of the sessions returned
get_user_sessions(st, user_id, t) ==
    LET found == { s \in DOMAIN st :
                     st[s].user_id = user_id /\ ~is_expired(st[s], t) }
        expired == { s \in DOMAIN st : is_expired(st[s], t) }
    IN  Return(Delete(st, expired), found, NoError)

\* ---- the state machine ----
SessionStoreInit(ttl) ==
    /\ sessions = [s \in {} |-> s]
    /\ unix_now = 0
    /\ ttl_seconds = ttl
    /\ issued = <<>>
    /\ invalidated = {}

Init ==
    /\ jobs = <<>>
    /\ queue_by_status = [s \in JobQueueStatus |-> <<>>]
    /\ queue_by_pool = [p \in Pools |-> <<>>]
    /\ now = 0
    /\ calls = 0
    /\ last_claimant = <<>>
    /\ retries = <<>>
    /\ SessionStoreInit(MaxTtl)

\* retries once a call has left the store st: a job that was FAILED and is
\* QUEUED in st has made one more retry transition; a new job has made none
RetriesAfter(st) ==
    [j \in 1..Len(st.jobs) |->
        IF j > Len(jobs) THEN 0
        ELSE IF jobs[j].status = FAILED /\ st.jobs[j].status = QUEUED
        THEN retries[j] + 1
        ELSE retries[j]]

\* A call is a step when it changes the store; a call that leaves the store
\* as it was changes no variable (a stuttering step, which every behaviour
\* allows).  calls counts the steps and MaxCalls bounds them.
Accepted(r) == r.store # Store /\ calls < MaxCalls

EnqueueJob ==
    \E req \in JobRequests :
        LET r == enqueue_job_link(Store,
                     EnqueueRequest(Len(jobs) + 1, "build", req[1], req[2],
                                    req[3]), now)
        IN
        /\ Len(jobs) < MaxJobs
        /\ Accepted(r)
        /\ jobs' = r.store.jobs
        /\ queue_by_status' = r.store.queue_by_status
        /\ queue_by_pool' = r.store.queue_by_pool
        /\ calls' = calls + 1
        /\ UNCHANGED now
        /\ last_claimant' = Append(last_claimant, NoneStr)
        /\ retries' = RetriesAfter(r.store)
        /\ UNCHANGED session_vars

ClaimJob ==
    \E agent_id \in Agents, pool_name \in Pools, leaseArg \in LeaseArgs :
        LET r == claim_job(Store, agent_id, pool_name, StoreLease(leaseArg), now) IN
        /\ Accepted(r)
        /\ jobs' = r.store.jobs
        /\ queue_by_status' = r.store.queue_by_status
        /\ queue_by_pool' = r.store.queue_by_pool
        /\ calls' = calls + 1
        /\ UNCHANGED now
        /\ last_claimant' = IF r.result = None THEN last_claimant
                             ELSE [last_claimant EXCEPT ![r.result] = agent_id]
        /\ retries' = RetriesAfter(r.store)
        /\ UNCHANGED session_vars

ClaimJobLink ==
    \E agent_id \in Agents, pool_name \in Pools, leaseArg \in LeaseArgs :
        LET r == claim_job_link(Store, agent_id, pool_name, leaseArg, now) IN
        /\ Accepted(r)
        /\ jobs' = r.store.jobs
        /\ queue_by_status' = r.store.queue_by_status
        /\ queue_by_pool' = r.store.queue_by_pool
        /\ calls' = calls + 1
        /\ UNCHANGED now
        /\ last_claimant' = IF r.result = None THEN last_claimant
                             ELSE [last_claimant EXCEPT ![r.result] = agent_id]
        /\ retries' = RetriesAfter(r.store)
        /\ UNCHANGED session_vars

StartJob ==
    \E job_id \in JobIds, agent_id \in Agents :
        LET r == start_job(Store, job_id, agent_id, now) IN
        /\ Accepted(r)
        /\ jobs' = r.store.jobs
        /\ queue_by_status' = r.store.queue_by_status
        /\ queue_by_pool' = r.store.queue_by_pool
        /\ calls' = calls + 1
        /\ UNCHANGED now
        /\ UNCHANGED last_claimant
        /\ retries' = RetriesAfter(r.store)
        /\ UNCHANGED session_vars

CompleteJob ==
    \E job_id \in JobIds, a \in CompleteArgs :
        LET r == complete_job(Store, job_id, a.exit_code, a.duration_seconds,
                              a.error_message, now) IN
        /\ Accepted(r)
        /\ jobs' = r.store.jobs
        /\ queue_by_status' = r.store.queue_by_status
        /\ queue_by_pool' = r.store.queue_by_pool
        /\ calls' = calls + 1
        /\ UNCHANGED now
        /\ UNCHANGED last_claimant
        /\ retries' = RetriesAfter(r.store)
        /\ UNCHANGED session_vars

RequeueExpiredLeases ==
    LET r == requeue_expired_leases(Store, now) IN
    /\ Accepted(r)
    /\ jobs' = r.store.jobs
    /\ queue_by_status' = r.store.queue_by_status
    /\ queue_by_pool' = r.store.queue_by_pool
    /\ calls' = calls + 1
    /\ UNCHANGED now
    /\ UNCHANGED last_claimant
    /\ retries' = RetriesAfter(r.store)
    /\ UNCHANGED session_vars

RetryFailedJob ==
    \E job_id \in JobIds :
        LET r == retry_failed_job(Store, job_id) IN
        /\ Accepted(r)
        /\ jobs' = r.store.jobs
        /\ queue_by_status' = r.store.queue_by_status
        /\ queue_by_pool' = r.store.queue_by_pool
        /\ calls' = calls + 1
        /\ UNCHANGED now
        /\ UNCHANGED last_claimant
        /\ retries' = RetriesAfter(r.store)
        /\ UNCHANGED session_vars

\* ---- the clock ----
Tick ==
    /\ now < MaxTime
    /\ now' = now + 1
    /\ UNCHANGED <<jobs, queue_by_status, queue_by_pool, calls, last_claimant,
                   retries>>
    /\ UNCHANGED session_vars

Next ==
    \/ EnqueueJob
    \/ ClaimJob
    \/ ClaimJobLink
    \/ StartJob
    \/ CompleteJob
    \/ RequeueExpiredLeases
    \/ RetryFailedJob
    \/ Tick

Spec == Init /\ [][Next]_vars

\* ======================================================================
\* The calls a caller can make on the store as it stands, and what each
\* would leave and return
\* ======================================================================
JobSet == 1..Len(jobs)

\* the jobs of a pool that are QUEUED according to the job table
QueuedIn(st, pool_name) ==
    { j \in 1..Len(st.jobs) :
        st.jobs[j].pool_name = pool_name /\ st.jobs[j].status = QUEUED }

\* CRITICAL > HIGH > NORMAL > LOW
Outranks(p, q) ==
    <<p, q>> \in { <<CRITICAL, HIGH>>, <<CRITICAL, NORMAL>>, <<CRITICAL, LOW>>,
                   <<HIGH, NORMAL>>, <<HIGH, LOW>>, <<NORMAL, LOW>> }

ClaimCalls ==
    [agent : Agents, pool : Pools, lease : LeaseArgs, via : {"store", "link"}]

ClaimOutcome(st, c, t) ==
    IF c.via = "store"
    THEN claim_job(st, c.agent, c.pool, StoreLease(c.lease), t)
    ELSE claim_job_link(st, c.agent, c.pool, c.lease, t)

\* every claim, start, complete, retry and requeue-expired call
EngineOutcomes ==
    { ClaimOutcome(Store, c, now) : c \in ClaimCalls }
    \cup { start_job(Store, j, a, now) : j \in JobIds, a \in Agents }
    \cup { complete_job(Store, j, a.exit_code, a.duration_seconds,
                        a.error_message, now) : j \in JobIds, a \in CompleteArgs }
    \cup { retry_failed_job(Store, j) : j \in JobIds }
    \cup { requeue_expired_leases(Store, now) }

\* ======================================================================
\* C1. Atomic claim: of N >= 2 claim calls made one after the other, in any
\* order and by any agents, on a pool that holds exactly one QUEUED job,
\* exactly one returns that job and every other returns no job.
\* ======================================================================
RECURSIVE ClaimRun(_, _, _, _, _)
\* the values returned by the calls of agents[1], agents[2], ... in turn;
\* a call that raises returns nothing, written ValueError
ClaimRun(st, agents, pool_name, leaseArg, t) ==
    IF agents = <<>> THEN <<>>
    ELSE LET r == claim_job(st, Head(agents), pool_name, StoreLease(leaseArg), t)
         IN  <<IF r.error = NoError THEN <<"job", r.result>> ELSE <<r.error, None>>>>
             \o ClaimRun(r.store, Tail(agents), pool_name, leaseArg, t)

C1_AtomicClaim ==
    \A pool_name \in Pools :
        Cardinality(QueuedIn(Store, pool_name)) = 1 =>
            LET j == CHOOSE k \in QueuedIn(Store, pool_name) : TRUE IN
            \A n \in 2..MaxBatch : \A agents \in [1..n -> Agents] :
            \A leaseArg \in LeaseArgs :
                LET run == ClaimRun(Store, agents, pool_name, leaseArg, now) IN
                /\ Cardinality({ i \in 1..n : run[i] = <<"job", j>> }) = 1
                /\ \A i \in 1..n : run[i] \in { <<"job", j>>, <<"job", None>> }

\* ======================================================================
\* C2. At most one live claim per job: a claim call returns, and changes,
\* only a job whose status is QUEUED at the moment of the call; a job that is
\* CLAIMED or RUNNING is returned by no claim call of any agent, and the job
\* returned is CLAIMED by the caller when the call ends.
\* ======================================================================
C2_ClaimOnlyQueued ==
    \A c \in ClaimCalls :
        LET r == ClaimOutcome(Store, c, now) IN
        /\ \A j \in JobSet :
              jobs[j].status \in {CLAIMED, RUNNING} =>
                  /\ r.result # j
                  /\ r.store.jobs[j] = jobs[j]
        /\ r.result # None =>
              /\ jobs[r.result].status = QUEUED
              /\ r.store.jobs[r.result].status = CLAIMED
              /\ r.store.jobs[r.result].claimed_by_agent = c.agent

\* agent-1 holds job j; job k waits in the same pool with a lower priority;
\* the claim of agent-2 passes over j and returns k
C2_Witness ==
    \E j \in JobSet, k \in JobSet :
        /\ jobs[j].status = CLAIMED
        /\ jobs[j].claimed_by_agent = "agent-1"
        /\ jobs[k].pool_name = jobs[j].pool_name
        /\ jobs[k].status = QUEUED
        /\ Outranks(jobs[j].priority, jobs[k].priority)
        /\ claim_job(Store, "agent-2", jobs[j].pool_name, DefaultLease, now).result = k

\* ======================================================================
\* C3. Priority ordering: when claim(agent, pool) returns a job, no job that
\* was QUEUED in that pool at the moment of the call has a strictly higher
\* priority (CRITICAL > HIGH > NORMAL > LOW).
\* ======================================================================
C3_PriorityOrdering ==
    \A c \in ClaimCalls :
        LET r == ClaimOutcome(Store, c, now) IN
        r.result # None =>
            \A k \in QueuedIn(Store, c.pool) :
                ~Outranks(jobs[k].priority, jobs[r.result].priority)

\* the job enqueued second has the higher priority and is the one claimed
C3_Witness ==
    \E j \in JobSet, k \in JobSet :
        /\ j < k
        /\ {j, k} \subseteq QueuedIn(Store, "prod")
        /\ Outranks(jobs[k].priority, jobs[j].priority)
        /\ claim_job(Store, "agent-1", "prod", DefaultLease, now).result = k

\* ======================================================================
\* C4. FIFO tie-break: among the QUEUED jobs of a pool that have the
\* priority of the job claim returns, the job returned is the one enqueued
\* first (jobs are numbered in the order of their enqueue).
\* ======================================================================
C4_FifoTieBreak ==
    \A c \in ClaimCalls :
        LET r == ClaimOutcome(Store, c, now) IN
        r.result # None =>
            \A k \in QueuedIn(Store, c.pool) :
                jobs[k].priority = jobs[r.result].priority => r.result <= k

\* two QUEUED jobs of one pool and one priority, enqueued at different
\* instants; the claim returns the earlier one
C4_Witness ==
    \E j \in JobSet, k \in JobSet :
        /\ j < k
        /\ {j, k} \subseteq QueuedIn(Store, "prod")
        /\ jobs[j].priority = jobs[k].priority
        /\ jobs[j].queued_at < jobs[k].queued_at
        /\ claim_job(Store, "agent-1", "prod", DefaultLease, now).result = j

\* ======================================================================
\* C5. Pool isolation: claim(agent, pool) returns only a job whose pool_name
\* is pool and changes no job of another pool, and no claim, start,
\* complete, retry or requeue-expired call changes a job's pool_name.
\* ======================================================================
C5_PoolIsolation ==
    /\ \A c \in ClaimCalls :
          LET r == ClaimOutcome(Store, c, now) IN
          /\ r.result # None => jobs[r.result].pool_name = c.pool
          /\ \A k \in JobSet :
                jobs[k].pool_name # c.pool => r.store.jobs[k] = jobs[k]
    /\ \A r \in EngineOutcomes : \A k \in JobSet :
          r.store.jobs[k].pool_name = jobs[k].pool_name

\* a job waits in staging with a higher priority than the job that waits in
\* prod; the claim on prod returns the prod job
C5_Witness ==
    \E j \in JobSet, k \in JobSet :
        /\ j \in QueuedIn(Store, "prod")
        /\ k \in QueuedIn(Store, "staging")
        /\ Outranks(jobs[k].priority, jobs[j].priority)
        /\ claim_job(Store, "agent-1", "prod", DefaultLease, now).result = j

\* ======================================================================
\* C6. A successful claim(agent_id, pool, d) leaves the returned job CLAIMED
\* by agent_id with claimed_at = now and claimed_lease_expires_at = now + d
\* for every requested d >= 0 (30 only when d is omitted), and leaves every
\* other job record unchanged.
\* ======================================================================
C6_ClaimSetsLease ==
    \A c \in ClaimCalls :
        LET r == ClaimOutcome(Store, c, now) IN
        r.result # None =>
            LET job == r.store.jobs[r.result] IN
            /\ job.status = CLAIMED
            /\ job.claimed_by_agent = c.agent
            /\ job.claimed_at = now
            /\ job.claimed_lease_expires_at =
                  now + (IF c.lease = None THEN DefaultLease ELSE c.lease)
            /\ \A k \in JobSet \ {r.result} : r.store.jobs[k] = jobs[k]

\* ======================================================================
\* C7. claim(agent, pool) returns no job if and only if no job of the pool
\* is QUEUED; when one is, the call returns a job and does not fail; and a
\* call that returns no job leaves the store unchanged.
\* ======================================================================
C7_NoJobIffNoneQueued ==
    \A c \in ClaimCalls :
        LET r == ClaimOutcome(Store, c, now) IN
        /\ QueuedIn(Store, c.pool) = {} <=> (r.result = None /\ r.error = NoError)
        /\ QueuedIn(Store, c.pool) # {} => (r.result # None /\ r.error = NoError)
        /\ r.result = None => r.store = Store

\* ======================================================================
\* C8. Lifecycle: every change of a job's status is one of QUEUED->CLAIMED,
\* CLAIMED->RUNNING, RUNNING->COMPLETED, RUNNING->FAILED, FAILED->QUEUED,
\* FAILED->DEAD_LETTERED, CLAIMED->QUEUED.
\* ======================================================================
Lifecycle ==
    { <<QUEUED, CLAIMED>>, <<CLAIMED, RUNNING>>, <<RUNNING, COMPLETED>>,
      <<RUNNING, FAILED>>, <<FAILED, QUEUED>>, <<FAILED, DEAD_LETTERED>>,
      <<CLAIMED, QUEUED>> }

C8_Lifecycle ==
    [][ \A j \in JobSet :
          jobs'[j].status # jobs[j].status =>
              <<jobs[j].status, jobs'[j].status>> \in Lifecycle ]_vars

\* ======================================================================
\* C9. Terminal states are immutable: once a job is COMPLETED or
\* DEAD_LETTERED no later call changes its status.
\* ======================================================================
C9_TerminalImmutable ==
    [][ \A j \in JobSet :
          jobs[j].status \in {COMPLETED, DEAD_LETTERED} =>
              jobs'[j].status = jobs[j].status ]_vars

\* ======================================================================
\* C10. A dead-lettered job is never resurrected: a job that has been
\* DEAD_LETTERED (the DEAD_LETTERED list of the status index, from which no
\* operation removes, names it) is never QUEUED or CLAIMED again, no claim,
\* start, complete, retry or requeue-expired call makes it so, and no claim
\* returns it.
\* ======================================================================
WasDeadLettered(j) ==
    jobs[j].status = DEAD_LETTERED \/ InList(queue_by_status[DEAD_LETTERED], j)

C10_NeverResurrected ==
    \A j \in JobSet :
        WasDeadLettered(j) =>
            /\ jobs[j].status \notin {QUEUED, CLAIMED}
            /\ \A r \in EngineOutcomes :
                  r.store.jobs[j].status \notin {QUEUED, CLAIMED}
            /\ \A c \in ClaimCalls : ClaimOutcome(Store, c, now).result # j

\* a dead-lettered job whose lease has run out, so that the sweep meets it,
\* after a late completion has marked it FAILED once more; the retry
\* dead-letters it again
C10_Witness ==
    \E j \in JobSet :
        /\ InList(queue_by_status[DEAD_LETTERED], j)
        /\ jobs[j].status = FAILED
        /\ is_lease_expired(jobs[j], now)
        /\ requeue_expired_leases(Store, now).store.jobs[j] = jobs[j]
        /\ retry_failed_job(Store, j).store.jobs[j].status = DEAD_LETTERED

\* ======================================================================
\* C11. Completion determines outcome: for every existing job, whatever its
\* status and whoever holds its claim, complete(job_id, exit_code, duration,
\* error) is accepted (it returns the job and does not fail), records
\* exit_code, duration_seconds, error_message and completed_at = now, and
\* sets the status to COMPLETED when exit_code = 0 and to FAILED otherwise.
\* ======================================================================
C11_CompletionOutcome ==
    \A j \in JobSet : \A a \in CompleteArgs :
        LET r == complete_job(Store, j, a.exit_code, a.duration_seconds,
                              a.error_message, now)
            job == r.store.jobs[j]
        IN
        /\ r.result = j
        /\ r.error = NoError
        /\ job.exit_code = a.exit_code
        /\ job.duration_seconds = a.duration_seconds
        /\ job.error_message = a.error_message
        /\ job.completed_at = now
        /\ job.status = (IF a.exit_code = 0 THEN COMPLETED ELSE FAILED)

\* a job completed with a non-zero exit code while it was CLAIMED by agent-2
\* and never started, which a second completion with exit code 0 by anyone
\* would make COMPLETED
C11_Witness ==
    \E j \in JobSet :
        /\ jobs[j].status = FAILED
        /\ jobs[j].exit_code = 1
        /\ jobs[j].error_message = "boom"
        /\ jobs[j].completed_at = now
        /\ jobs[j].started_at = None
        /\ jobs[j].claimed_by_agent = "agent-2"
        /\ complete_job(Store, j, 0, 5, NoneStr, now).store.jobs[j].status = COMPLETED

\* ======================================================================
\* C13. Retry with attempts remaining: retry on a FAILED job with
\* attempt < max_attempts returns the job, raises attempt by exactly 1,
\* clears claimed_by_agent, claimed_at, claimed_lease_expires_at,
\* started_at, completed_at, exit_code, duration_seconds and error_message,
\* sets the status to QUEUED and changes nothing else of the record; the job
\* is then claimable again in its pool: it is a candidate of claim, listed
\* as QUEUED, and claims on the pool hand it out.
\* ======================================================================
ClearedForRetry(job) ==
    [job EXCEPT !.attempt = @ + 1,
                !.status = QUEUED,
                !.claimed_by_agent = NoneStr,
                !.claimed_at = None,
                !.claimed_lease_expires_at = None,
                !.started_at = None,
                !.completed_at = None,
                !.exit_code = None,
                !.duration_seconds = None,
                !.error_message = NoneStr]

\* some run of at most MaxJobs claims of an agent on the pool of job j
\* returns j
HandedOutTo(st, j, agent_id, t) ==
    \E n \in 1..MaxJobs :
        LET run == ClaimRun(st, [i \in 1..n |-> agent_id],
                            st.jobs[j].pool_name, None, t)
        IN  \E i \in 1..n : run[i] = <<"job", j>>

HandedOut(st, j, t) == HandedOutTo(st, j, "agent-1", t)

C13_RetryRequeues ==
    \A j \in JobSet :
        (jobs[j].status = FAILED /\ jobs[j].attempt < jobs[j].max_attempts) =>
            LET r == retry_failed_job(Store, j) IN
            /\ r.result = j
            /\ r.error = NoError
            /\ r.store.jobs[j] = ClearedForRetry(jobs[j])
            /\ \A k \in JobSet \ {j} : r.store.jobs[k] = jobs[k]
            /\ InList(queued_jobs(r.store, jobs[j].pool_name), j)
            /\ InList(r.store.queue_by_status[QUEUED], j)
            /\ HandedOut(r.store, j, now)

\* a job that ran and failed on its first attempt, with one attempt left;
\* the retry re-queues it and the next claim on its pool returns it
C13_Witness ==
    \E j \in JobSet :
        /\ jobs[j].status = FAILED
        /\ jobs[j].attempt = 1
        /\ jobs[j].max_attempts = 2
        /\ jobs[j].started_at # None
        /\ jobs[j].exit_code = 1
        /\ jobs[j].claimed_by_agent = "agent-1"
        /\ LET r == retry_failed_job(Store, j) IN
           /\ r.store.jobs[j].status = QUEUED
           /\ r.store.jobs[j].attempt = 2
           /\ claim_job(r.store, "agent-2", jobs[j].pool_name,
                        DefaultLease, now).result = j

\* ======================================================================
\* C14. Retry then dead-letter: a job with max_attempts = N that fails on
\* every execution (claim, start, complete with a non-zero exit code, then
\* the retry decision).  Starting from attempt a, each retry decision before
\* the last returns the job to QUEUED with attempt raised by one (the first
\* N-1 of a new job); the decision made at attempt N sets it DEAD_LETTERED
\* and returns 'cannot retry'; every further retry call returns 'cannot
\* retry' and leaves the store unchanged.
\* ======================================================================
\* one execution of job j by an agent that ends in failure
FailedExecution(st, j, agent_id, t) ==
    LET claimed == claim_job(st, agent_id, st.jobs[j].pool_name,
                             DefaultLease, t).store
        started == start_job(claimed, j, agent_id, t).store
    IN  complete_job(started, j, 1, 0, "boom", t).store

RECURSIVE FailingLife(_, _, _, _)
\* what the retry decisions of the next n failed executions return
FailingLife(st, j, n, t) ==
    IF n = 0 THEN <<>>
    ELSE LET r == retry_failed_job(FailedExecution(st, j, "agent-1", t), j)
         IN  <<r>> \o FailingLife(r.store, j, n - 1, t)

\* job j waits, with attempts left, and is the job the next claim returns
NextToRun(j) ==
    /\ jobs[j].status = QUEUED
    /\ jobs[j].attempt <= jobs[j].max_attempts
    /\ claim_job(Store, "agent-1", jobs[j].pool_name, DefaultLease, now).result = j

C14_RetryThenDeadLetter ==
    /\ \A j \in JobSet :
          NextToRun(j) =>
              LET left == jobs[j].max_attempts - jobs[j].attempt + 1
                  life == FailingLife(Store, j, left, now)
                  last == life[left]
              IN
              /\ \A k \in 1..(left - 1) :
                    /\ life[k].result = j
                    /\ life[k].error = NoError
                    /\ life[k].store.jobs[j].status = QUEUED
                    /\ life[k].store.jobs[j].attempt = jobs[j].attempt + k
              /\ last.result = None
              /\ last.error = NoError
              /\ last.store.jobs[j].status = DEAD_LETTERED
              /\ last.store.jobs[j].attempt = jobs[j].max_attempts
              /\ retry_failed_job(last.store, j) = Return(last.store, None, NoError)
    /\ \A j \in JobSet :
          jobs[j].status = DEAD_LETTERED =>
              retry_failed_job(Store, j) = Return(Store, None, NoError)

\* a job with max_attempts = 2 that was claimed, started and has failed for
\* the first time: the first retry decision re-queues it with attempt 2, the
\* decision after its second failure dead-letters it, and one more retry
\* returns 'cannot retry'
C14_Witness ==
    \E j \in JobSet :
        /\ jobs[j].status = FAILED
        /\ jobs[j].max_attempts = 2
        /\ jobs[j].attempt = 1
        /\ jobs[j].started_at # None
        /\ jobs[j].exit_code = 1
        /\ LET first == retry_failed_job(Store, j)
               life == FailingLife(first.store, j, 1, now)
           IN
           /\ first.result = j
           /\ first.store.jobs[j].status = QUEUED
           /\ first.store.jobs[j].attempt = 2
           /\ life[1].result = None
           /\ life[1].store.jobs[j].status = DEAD_LETTERED
           /\ retry_failed_job(life[1].store, j).result = None

\* ======================================================================
\* C15. In every reachable state a job's attempt is at least 1 and at most
\* max_attempts + 1; no call lowers it; a retry leaves it or raises it by
\* exactly 1; claim, start, complete and requeue-expired leave attempt and
\* max_attempts unchanged.  (C15_AttemptSteps is the claim without its
\* upper bound.)
\* ======================================================================
\* every claim, start, complete and requeue-expired call
NonRetryOutcomes ==
    { ClaimOutcome(Store, c, now) : c \in ClaimCalls }
    \cup { start_job(Store, j, a, now) : j \in JobIds, a \in Agents }
    \cup { complete_job(Store, j, a.exit_code, a.duration_seconds,
                        a.error_message, now) : j \in JobIds, a \in CompleteArgs }
    \cup { requeue_expired_leases(Store, now) }

RetryOutcomes == { retry_failed_job(Store, j) : j \in JobIds }

C15_AttemptSteps ==
    \A j \in JobSet :
        /\ jobs[j].attempt >= 1
        /\ \A r \in NonRetryOutcomes :
              /\ r.store.jobs[j].attempt = jobs[j].attempt
              /\ r.store.jobs[j].max_attempts = jobs[j].max_attempts
        /\ \A r \in RetryOutcomes :
              r.store.jobs[j].attempt \in {jobs[j].attempt, jobs[j].attempt + 1}

C15_AttemptBounds ==
    /\ C15_AttemptSteps
    /\ \A j \in JobSet : jobs[j].attempt <= jobs[j].max_attempts + 1

\* ======================================================================
\* C16. requeue_expired_leases returns to QUEUED exactly the jobs that are
\* CLAIMED with claimed_lease_expires_at earlier than now, clearing
\* claimed_by_agent and claimed_lease_expires_at and changing nothing else
\* of their records (attempt included); it leaves every other job
\* unchanged; it does not fail, and the count it returns is the number of
\* jobs it moved.
\* ======================================================================
ExpiredClaims(st, t) ==
    { j \in 1..Len(st.jobs) :
        /\ st.jobs[j].status = CLAIMED
        /\ st.jobs[j].claimed_lease_expires_at # None
        /\ st.jobs[j].claimed_lease_expires_at < t }

Reclaimed(job) ==
    [job EXCEPT !.status = QUEUED,
                !.claimed_by_agent = NoneStr,
                !.claimed_lease_expires_at = None]

C16_SweepReclaimsExpired ==
    LET r == requeue_expired_leases(Store, now) IN
    /\ r.error = NoError
    /\ r.result = Cardinality(ExpiredClaims(Store, now))
    /\ \A j \in JobSet :
          r.store.jobs[j] = IF j \in ExpiredClaims(Store, now)
                            THEN Reclaimed(jobs[j])
                            ELSE jobs[j]

\* ======================================================================
\* C17. Lease expiry round-trip: after a job is claimed with
\* lease_duration_seconds = 0, a requeue-expired sweep that follows at once
\* (the clock has not moved) reclaims it and returns a count >= 1, and the
\* next claim in that pool returns the job again.
\* ======================================================================
C17_LeaseExpiryRoundTrip ==
    \A c \in ClaimCalls :
        c.lease = 0 =>
            LET claimed == ClaimOutcome(Store, c, now) IN
            claimed.result # None =>
                LET sweep == requeue_expired_leases(claimed.store, now) IN
                /\ sweep.error = NoError
                /\ sweep.result >= 1
                /\ sweep.store.jobs[claimed.result].status = QUEUED
                /\ \A again \in ClaimCalls :
                      again.pool = c.pool =>
                          ClaimOutcome(sweep.store, again, now).result
                              = claimed.result

\* ======================================================================
\* C18. Work is reclaimed from agents that disappear: a job that an agent
\* claimed and then left alone, before calling start (CLAIMED) or after it
\* (RUNNING), and that has not been completed, is returned to QUEUED by the
\* next maintenance sweep once its lease has expired, and another agent can
\* then claim it.
\* ======================================================================
\* job j is held by an agent that went silent and its lease has run out
Abandoned(j) ==
    /\ jobs[j].status \in {CLAIMED, RUNNING}
    /\ jobs[j].claimed_by_agent # NoneStr
    /\ jobs[j].completed_at = None
    /\ is_lease_expired(jobs[j], now)

C18_AbandonedWorkReclaimed ==
    \A j \in JobSet :
        Abandoned(j) =>
            LET sweep == requeue_expired_leases(Store, now) IN
            /\ sweep.error = NoError
            /\ sweep.store.jobs[j].status = QUEUED
            /\ \A other \in Agents \ {jobs[j].claimed_by_agent} :
                  HandedOutTo(sweep.store, j, other, now)

\* ======================================================================
\* C19. requeue_expired_leases is safe to run together with claim: a job
\* that a sweep has reclaimed is handed to at most one agent by the claims
\* that follow it, whatever the agents and their order; and in every
\* reachable state a job's claimed_by_agent is either empty or the agent of
\* its most recent successful claim.
\* ======================================================================
C19_SweepSafeWithClaim ==
    /\ \A j \in JobSet :
          jobs[j].claimed_by_agent \in {NoneStr, last_claimant[j]}
    /\ LET sweep == requeue_expired_leases(Store, now) IN
       \A j \in JobSet :
           (jobs[j].status = CLAIMED /\ sweep.store.jobs[j].status = QUEUED) =>
               \A n \in 1..MaxBatch : \A agents \in [1..n -> Agents] :
               \A leaseArg \in LeaseArgs :
                   LET run == ClaimRun(sweep.store, agents,
                                       jobs[j].pool_name, leaseArg, now)
                   IN  Cardinality({ i \in 1..n : run[i] = <<"job", j>> }) <= 1

\* ======================================================================
\* C20. start(job_id, agent_id) fails and changes nothing in the store when
\* the job does not exist or when agent_id is not the job's current
\* claimant; so an agent whose claim was reclaimed (the job was re-queued,
\* or re-claimed by another agent) can no longer start the job, and start
\* never succeeds on a QUEUED job.
\* ======================================================================
C20_StartNeedsClaim ==
    \A j \in JobIds : \A a \in Agents :
        LET r == start_job(Store, j, a, now) IN
        /\ (j \notin JobSet \/ jobs[j].claimed_by_agent # a) =>
              r = Return(Store, None, NoError)
        /\ (j \in JobSet /\ jobs[j].status = QUEUED) =>
              r = Return(Store, None, NoError)

\* agent-1 holds job j and its lease has run out: once the sweep has
\* re-queued the job the start of agent-1 fails, and once agent-2 has
\* claimed it the start of agent-1 still fails while that of agent-2 succeeds
C20_Witness ==
    \E j \in JobSet :
        /\ jobs[j].status = CLAIMED
        /\ jobs[j].claimed_by_agent = "agent-1"
        /\ last_claimant[j] = "agent-1"
        /\ is_lease_expired(jobs[j], now)
        /\ LET swept == requeue_expired_leases(Store, now).store
               again == claim_job(swept, "agent-2", jobs[j].pool_name,
                                  DefaultLease, now)
           IN
           /\ swept.jobs[j].status = QUEUED
           /\ start_job(swept, j, "agent-1", now) = Return(swept, None, NoError)
           /\ again.result = j
           /\ start_job(again.store, j, "agent-1", now)
                  = Return(again.store, None, NoError)
           /\ start_job(again.store, j, "agent-2", now).result = j

\* ======================================================================
\* C21. Not-found is reported and mutates nothing: complete, retry and get
\* called with a job_id that was never enqueued return the not-found outcome
\* (no job, no exception) and leave every job record and every index
\* unchanged.
\* ======================================================================
\* the ids no job has: those not yet enqueued, and one beyond them all
UnknownIds == (1..(MaxJobs + 1)) \ JobSet

C21_NotFoundMutatesNothing ==
    \A j \in UnknownIds :
        /\ \A a \in CompleteArgs :
              complete_job(Store, j, a.exit_code, a.duration_seconds,
                           a.error_message, now) = Return(Store, None, NoError)
        /\ retry_failed_job(Store, j) = Return(Store, None, NoError)
        /\ get_job(Store, j) = Return(Store, None, NoError)

\* one job is in the engine, FAILED with an attempt left, so that a retry
\* or a completion that reached it would change it; the id 2 is unknown
C21_Witness ==
    /\ Len(jobs) = 1
    /\ jobs[1].status = FAILED
    /\ can_retry(jobs[1])
    /\ 2 \in UnknownIds
    /\ get_job(Store, 1).result = 1
    /\ get_job(Store, 2).result = None
    /\ retry_failed_job(Store, 1).store # Store
    /\ retry_failed_job(Store, 2).store = Store
\* ---- C22 / C23: enqueue ----
\* what a caller may send as the next request: the fresh job_id or none,
\* a job_type, a pool, a priority and a max_attempts, each possibly
\* absent or empty, the priority possibly not a JobQueuePriority
RequestJobIds == {Len(jobs) + 1, None}
RequestJobTypes == {"build", "", NoneStr}
RequestPools == Pools \cup {"", NoneStr}
RequestPriorities == {LOW, CRITICAL, "urgent", NoneStr}
RequestMaxAttempts == {Absent, 0, 1}
EnqueueRequests ==
    { EnqueueRequest(i, ty, po, pr, m) :
        i \in RequestJobIds, ty \in RequestJobTypes, po \in RequestPools,
        pr \in RequestPriorities, m \in RequestMaxAttempts }

LacksRequired(req) ==
    req.job_id = None \/ Falsy(req.job_type) \/ Falsy(req.pool_name)

\* C22: an enqueue request that lacks job_id, job_type or pool_name is
\* answered with the validation error, adds no job and changes no job and
\* no index.
C22_EnqueueValidation ==
    \A i \in RequestJobIds, ty \in RequestJobTypes, po \in RequestPools,
       pr \in RequestPriorities, m \in RequestMaxAttempts :
        LET req == EnqueueRequest(i, ty, po, pr, m)
        IN  LacksRequired(req) =>
                enqueue_job_link(Store, req, now)
                    = Return(Store, None, MissingRequiredFields)

\* one job is in the engine; a request without job_type is refused, the
\* same request with one is accepted
C22_Witness ==
    /\ Len(jobs) = 1
    /\ jobs[1].status = RUNNING
    /\ LET bad == EnqueueRequest(2, NoneStr, "prod", CRITICAL, 1)
           good == EnqueueRequest(2, "build", "prod", CRITICAL, 1)
       IN /\ bad \in EnqueueRequests
          /\ enqueue_job_link(Store, bad, now).error = MissingRequiredFields
          /\ enqueue_job_link(Store, bad, now).store = Store
          /\ enqueue_job_link(Store, good, now).error = NoError
          /\ Len(enqueue_job_link(Store, good, now).store.jobs) = 2
\* C23: a valid enqueue adds exactly one record, with status QUEUED,
\* attempt 1 and empty claim and execution fields, listed once more under
\* QUEUED and under its pool, and every job already in the engine keeps
\* its whole record.
C23_EnqueueAddsOneJob ==
    \A ty \in RequestJobTypes, po \in RequestPools,
       pr \in RequestPriorities, m \in RequestMaxAttempts :
        LET id == Len(jobs) + 1
            req == EnqueueRequest(id, ty, po, pr, m)
            r == enqueue_job_link(Store, req, now)
            job == r.store.jobs[id]
        IN  ~LacksRequired(req) =>
                /\ r.error = NoError
                /\ r.result = id
                /\ Len(r.store.jobs) = Len(jobs) + 1
                /\ job.job_id = id
                /\ job.pool_name = po
                /\ job.status = QUEUED
                /\ job.queued_at = now
                /\ job.attempt = 1
                /\ job.claimed_by_agent = NoneStr
                /\ job.claimed_lease_expires_at = None
                /\ job.claimed_at = None
                /\ job.started_at = None
                /\ job.completed_at = None
                /\ job.exit_code = None
                /\ job.duration_seconds = None
                /\ job.error_message = NoneStr
                /\ r.store.queue_by_status =
                       [queue_by_status EXCEPT ![QUEUED] = Append(@, id)]
                /\ r.store.queue_by_pool =
                       [queue_by_pool EXCEPT ![po] = Append(@, id)]
                /\ \A j \in JobSet : r.store.jobs[j] = jobs[j]

\* job 1 was enqueued earlier and is running under a lease when job 2
\* arrives
C23_Witness ==
    /\ Len(jobs) = 1
    /\ jobs[1].status = RUNNING
    /\ jobs[1].claimed_by_agent = "agent-1"
    /\ jobs[1].queued_at < now
    /\ LET r == enqueue_job_link(Store,
                    EnqueueRequest(2, "build", "prod", "urgent", 0), now)
       IN /\ r.store.jobs[2].status = QUEUED
          /\ r.store.jobs[2].priority = NORMAL
          /\ r.store.jobs[2].max_attempts = 3
          /\ r.store.jobs[1] = jobs[1]
\* ---- C24: claimant and lease go together ----
ClaimPaired(job) ==
    (job.claimed_by_agent = NoneStr) <=> (job.claimed_lease_expires_at = None)

\* C24: in every reachable state, and in the store every operation leaves
\* behind (one that raised included), each job has claimed_by_agent and
\* claimed_lease_expires_at both set or both empty.
C24_ClaimantAndLeasePaired ==
    /\ \A j \in JobSet : ClaimPaired(jobs[j])
    /\ \A r \in EngineOutcomes :
           \A j \in JobSet : ClaimPaired(r.store.jobs[j])

\* job 1 is held under a lease; job 2 was claimed, lost its claim to the
\* sweep and waits again with both fields empty
C24_Witness ==
    /\ Len(jobs) = 2
    /\ jobs[1].status = CLAIMED
    /\ jobs[1].claimed_by_agent = "agent-1"
    /\ jobs[1].claimed_lease_expires_at # None
    /\ jobs[2].status = QUEUED
    /\ jobs[2].claimed_at # None
    /\ jobs[2].claimed_by_agent = NoneStr
    /\ jobs[2].claimed_lease_expires_at = None
\* ---- C25: claim state only while CLAIMED or RUNNING ----
\* C25: in every reachable state a job whose status is QUEUED, COMPLETED,
\* FAILED or DEAD_LETTERED has empty claimed_by_agent and
\* claimed_lease_expires_at.
C25_ClaimStateOnlyWhileHeld ==
    \A j \in JobSet :
        jobs[j].status \notin {CLAIMED, RUNNING} =>
            /\ jobs[j].claimed_by_agent = NoneStr
            /\ jobs[j].claimed_lease_expires_at = None
\* ---- C26: the status index agrees with the job table ----
\* how often x occurs in the list s
Count(s, x) == Cardinality({k \in 1..Len(s) : s[k] = x})

\* the ids in a list
Ids(s) == {s[k] : k \in 1..Len(s)}

JobsIn(status) == {j \in JobSet : jobs[j].status = status}

\* the status index lists every job once, under its status
IndexAgrees ==
    \A j \in JobSet : \A s \in JobQueueStatus :
        Count(queue_by_status[s], j) = IF jobs[j].status = s THEN 1 ELSE 0

\* C26: after any sequence of operations every job id is listed under
\* exactly one status, its current one, so list_queued_jobs returns
\* exactly the QUEUED jobs and list_running_jobs exactly the RUNNING jobs.
C26_IndexAgreesWithJobs ==
    /\ IndexAgrees
    /\ LET r == list_queued_jobs(Store, NoneStr, DefaultLimit)
       IN  r.error = NoError /\ Len(r.result) = Cardinality(JobsIn(QUEUED))
                             /\ Ids(r.result) = JobsIn(QUEUED)
    /\ LET r == list_running_jobs(Store, NoneStr)
       IN  r.error = NoError /\ Len(r.result) = Cardinality(JobsIn(RUNNING))
                             /\ Ids(r.result) = JobsIn(RUNNING)
\* ---- C27: statistics counts ----
\* the count get_queue_stats returns for a status
StatsTotal(stats, status) ==
    CASE status = QUEUED -> stats.total_queued
      [] status = CLAIMED -> stats.total_claimed
      [] status = RUNNING -> stats.total_running
      [] status = COMPLETED -> stats.total_completed
      [] status = FAILED -> stats.total_failed
      [] status = DEAD_LETTERED -> stats.total_dead_lettered

\* C27: after any sequence of operations each per-status count returned
\* by get_queue_stats equals the number of job records currently in that
\* status, and the six counts sum to the number of jobs in the engine.
C27_StatsCountsMatchJobs ==
    LET stats == get_queue_stats(Store).result IN
    /\ \A s \in JobQueueStatus :
           StatsTotal(stats, s) = Cardinality(JobsIn(s))
    /\ stats.total_queued + stats.total_claimed + stats.total_running
         + stats.total_completed + stats.total_failed
         + stats.total_dead_lettered = Len(jobs)
\* ---- C28: which jobs the queue-wait statistics cover ----
Finished == {COMPLETED, FAILED, DEAD_LETTERED}

\* C28: the queue-wait statistics are computed over all finished jobs:
\* every job whose status is COMPLETED, FAILED or DEAD_LETTERED (and that
\* was claimed, so that it has a wait) contributes its wait time once, and
\* no job in another status contributes.
C28_WaitStatsCoverFinishedJobs ==
    \A j \in JobSet :
        Count(wait_jobs(Store), j) =
            IF jobs[j].status \in Finished /\ jobs[j].claimed_at # None
            THEN 1 ELSE 0
\* ---- C29: failure_rate ----
\* a job that waited `wait` seconds for its claim and finished
FinishedJob(job_id, wait, exit_code) ==
    [QueuedJob(job_id, "prod", NORMAL, 3, 0) EXCEPT
        !.status = CompletionStatus(exit_code),
        !.claimed_at = wait,
        !.claimed_by_agent = "agent-1",
        !.claimed_lease_expires_at = wait + DefaultLease,
        !.started_at = wait,
        !.completed_at = wait + 5,
        !.exit_code = exit_code,
        !.duration_seconds = 5]

\* the store after two jobs completed (waits 10 and 20) and one failed
\* (wait 30)
ExampleStore ==
    [ jobs |-> << FinishedJob(1, 10, 0), FinishedJob(2, 20, 0),
                  FinishedJob(3, 30, 1) >>,
      queue_by_status |->
          [s \in JobQueueStatus |->
              IF s = COMPLETED THEN <<1, 2>>
              ELSE IF s = FAILED THEN <<3>> ELSE <<>>],
      queue_by_pool |->
          [p \in Pools |-> IF p = "prod" THEN <<1, 2, 3>> ELSE <<>>] ]

\* the fraction f is the quotient num / den
Equals(f, num, den) == f.num * den = num * f.den

\* failure_rate is the fraction of the finished jobs that failed
C29_RateOfJobs ==
    LET rate == get_queue_stats(Store).result.failure_rate
        failed == Cardinality(JobsIn(FAILED) \cup JobsIn(DEAD_LETTERED))
        finished == failed + Cardinality(JobsIn(COMPLETED))
    IN  IF finished = 0 THEN rate = Zero ELSE Equals(rate, failed, finished)

\* failure_rate lies between 0 and 1
C29_RateBounds ==
    LET rate == get_queue_stats(Store).result.failure_rate
    IN  rate.den > 0 /\ 0 <= rate.num /\ rate.num <= rate.den

\* the worked example
C29_Example ==
    LET stats == get_queue_stats(ExampleStore).result
    IN  /\ Equals(stats.failure_rate, 1, 3)
        /\ Equals(stats.avg_queue_wait_seconds, 20, 1)

\* C29: failure_rate is (FAILED + DEAD_LETTERED) / (COMPLETED + FAILED +
\* DEAD_LETTERED) over the jobs of the engine, 0 when no job has finished,
\* always between 0 and 1; with 2 completed jobs (waits 10 and 20) and 1
\* failed job (wait 30) it is 1/3 and avg_queue_wait_seconds is 20.
C29_FailureRate == C29_RateOfJobs /\ C29_RateBounds /\ C29_Example
\* ---- C30: queued_at is set once ----
\* C30: no claim, start, complete, retry or requeue-expired call, whatever
\* its arguments and whether or not it raises, changes a job's queued_at.
C30_QueuedAtSetOnce ==
    \A r \in EngineOutcomes :
        \A j \in JobSet : r.store.jobs[j].queued_at = jobs[j].queued_at

\* job 1, enqueued at 0, is held under a lease that has run out; the
\* sweep re-queues it, a completion finishes it, and it is still queued_at 0
C30_Witness ==
    /\ Len(jobs) = 1
    /\ jobs[1].status = CLAIMED
    /\ jobs[1].queued_at = 0
    /\ now = 1
    /\ is_lease_expired(jobs[1], now)
    /\ LET swept == requeue_expired_leases(Store, now).store
           done == complete_job(Store, 1, 1, 0, "boom", now).store
       IN /\ swept.jobs[1].status = QUEUED
          /\ swept.jobs[1].queued_at = 0
          /\ done.jobs[1].status = FAILED
          /\ retry_failed_job(done, 1).store.jobs[1].status = QUEUED
          /\ retry_failed_job(done, 1).store.jobs[1].queued_at = 0
\* ---- C31: claimed_at, started_at, completed_at are set once ----
\* what a claim, start or complete call can leave behind; none of them is
\* a retry, so the attempt of every job stays the one it is in
AgentCallOutcomes ==
    { ClaimOutcome(Store, c, now) : c \in ClaimCalls }
    \cup { start_job(Store, j, a, now) : j \in JobIds, a \in Agents }
    \cup { complete_job(Store, j, a.exit_code, a.duration_seconds,
                        a.error_message, now) : j \in JobIds, a \in CompleteArgs }

\* C31: within one attempt of a job, once claimed_at, started_at or
\* completed_at has a value no later claim, start or complete call
\* overwrites it with a different value.
C31_TimestampsSetOnce ==
    \A r \in AgentCallOutcomes : \A j \in JobSet :
        /\ r.store.jobs[j].attempt = jobs[j].attempt
        /\ jobs[j].claimed_at # None =>
               r.store.jobs[j].claimed_at = jobs[j].claimed_at
        /\ jobs[j].started_at # None =>
               r.store.jobs[j].started_at = jobs[j].started_at
        /\ jobs[j].completed_at # None =>
               r.store.jobs[j].completed_at = jobs[j].completed_at
LeavesStore(r) ==
    /\ r.store.jobs = jobs
    /\ r.store.queue_by_status = queue_by_status
    /\ r.store.queue_by_pool = queue_by_pool

\* pool_name as a listing receives it: a pool, or not at all
PoolFilters == Pools \cup {NoneStr}

C34_RetryOnlyOnFailed ==
    \A j \in JobSet :
        jobs[j].status # FAILED =>
            retry_failed_job(Store, j) = Return(Store, None, NoError)
\* ---- C35: the retried flag of the complete response ----
\* C35: the complete response carries retried = true exactly when the call
\* re-queued the failed job for another attempt; it carries retried = false
\* when the job completed successfully and when it was dead-lettered.
C35_RetriedFlag ==
    \A sem \in ChainSemantics, j \in JobSet, a \in CompleteArgs :
        LET r == CompleteChain(Store, j, a.exit_code, a.duration_seconds,
                               a.error_message, now, sem)
            requeued == /\ a.exit_code # 0
                        /\ r.store.jobs[j].status = QUEUED
                        /\ r.store.jobs[j].attempt = jobs[j].attempt + 1
        IN  /\ r.error = NoError
            /\ r.result.retried = requeued
\* ---- C36: a claim through the Dispatch API ----
\* C36: a claim made through ClaimChain and POST /api/queue/claim while a
\* QUEUED job exists in the pool answers no_jobs_available = false and the
\* claimed job with its job_id; when no QUEUED job exists it answers
\* no_jobs_available = true and no job.
C36_ClaimResponse ==
    \A sem \in ChainSemantics, a \in Agents, p \in Pools, l \in LeaseArgs :
        LET r == ClaimChain(Store, a, p, l, now, sem) IN
        IF \E j \in JobSet : jobs[j].pool_name = p /\ jobs[j].status = QUEUED
        THEN /\ r.error = NoError
             /\ r.result.no_jobs_available = FALSE
             /\ r.result.job \in JobSet
             /\ jobs[r.result.job].status = QUEUED
             /\ r.store.jobs[r.result.job].status = CLAIMED
             /\ r.store.jobs[r.result.job].claimed_by_agent = a
        ELSE /\ r.error = NoError
             /\ r.result = ClaimResponse(TRUE, None)
\* ---- C37: a re-queued job keeps its place ----
\* the stores in which job j has just been returned to QUEUED, by the
\* sweep (its lease ran out) or by retry (it had FAILED)
RequeuedStores(j) ==
    { st \in { requeue_expired_leases(Store, now).store,
               retry_failed_job(Store, j).store } :
        /\ jobs[j].status \in {CLAIMED, FAILED}
        /\ st.jobs[j].status = QUEUED }

\* C37: a job returned to QUEUED by lease reclamation or by retry keeps
\* its priority and queued_at, and in the next claim on its pool no job
\* enqueued after it with the same priority, and no job of lower priority,
\* is handed out instead of it, while a higher-priority QUEUED job still is
\* (jobs are numbered in the order of their enqueue).
C37_RequeuedKeepsPlace ==
    \A j \in JobSet : \A st \in RequeuedStores(j) :
        /\ st.jobs[j].priority = jobs[j].priority
        /\ st.jobs[j].queued_at = jobs[j].queued_at
        /\ \A c \in ClaimCalls :
               LET r == ClaimOutcome(st, c, now)
                   k == r.result
               IN  (c.pool = jobs[j].pool_name /\ k # None) =>
                       /\ \A q \in QueuedIn(st, c.pool) :
                              ~Outranks(st.jobs[q].priority, st.jobs[k].priority)
                       /\ k # j =>
                              \/ Outranks(st.jobs[k].priority, st.jobs[j].priority)
                              \/ /\ st.jobs[k].priority = st.jobs[j].priority
                                 /\ k < j

\* job 1 lost its lease, job 2 of the same pool and priority was enqueued
\* after it and waits; the sweep re-queues job 1 and the next claim hands
\* out job 1, not job 2
C37_Witness ==
    /\ Len(jobs) = 2
    /\ jobs[1].status = CLAIMED
    /\ is_lease_expired(jobs[1], now)
    /\ jobs[2].status = QUEUED
    /\ jobs[2].pool_name = jobs[1].pool_name
    /\ jobs[2].priority = jobs[1].priority
    /\ jobs[2].claimed_at = None
    /\ LET st == requeue_expired_leases(Store, now).store
       IN /\ st \in RequeuedStores(1)
          /\ QueuedIn(st, jobs[1].pool_name) = {1, 2}
          /\ claim_job(st, "agent-2", jobs[1].pool_name, DefaultLease, now).result = 1

\* ======================================================================
\* Progress: the queue driven by agents that follow the protocol
\* ======================================================================
\* The calls of the module docstring's design: jobs are submitted, agents
\* claim from a pool, the agent that holds a job starts it and reports its
\* outcome, every failure is handed to retry_failed_job, and the sweep runs.
\* These steps are not counted in calls: max_attempts, MaxJobs and MaxTime
\* bound them.  The jobs submitted are three of JobRequests: one that may be
\* retried once, one that may not, one with a negative max_attempts.
ProtocolRequests ==
    { <<"prod", NORMAL, 2>>, <<"prod", HIGH, 1>>, <<"staging", CRITICAL, -1>> }

Submit ==
    \E req \in ProtocolRequests :
        LET r == enqueue_job_link(Store,
                     EnqueueRequest(Len(jobs) + 1, "build", req[1], req[2],
                                    req[3]), now)
        IN
        /\ Len(jobs) < MaxJobs
        /\ r.store # Store
        /\ jobs' = r.store.jobs
        /\ queue_by_status' = r.store.queue_by_status
        /\ queue_by_pool' = r.store.queue_by_pool
        /\ last_claimant' = Append(last_claimant, NoneStr)
        /\ retries' = RetriesAfter(r.store)
        /\ UNCHANGED session_vars
        /\ UNCHANGED <<now, calls>>

AgentClaims(pool_name) ==
    \E c \in ClaimCalls :
        LET r == ClaimOutcome(Store, c, now) IN
        /\ c.pool = pool_name
        /\ r.store # Store
        /\ jobs' = r.store.jobs
        /\ queue_by_status' = r.store.queue_by_status
        /\ queue_by_pool' = r.store.queue_by_pool
        /\ last_claimant' = IF r.result = None THEN last_claimant
                             ELSE [last_claimant EXCEPT ![r.result] = c.agent]
        /\ retries' = RetriesAfter(r.store)
        /\ UNCHANGED session_vars
        /\ UNCHANGED <<now, calls>>

\* the agent recorded on a CLAIMED job starts it
AgentStarts(job_id) ==
    /\ job_id \in 1..Len(jobs)
    /\ jobs[job_id].status = CLAIMED
    /\ LET r == start_job(Store, job_id, jobs[job_id].claimed_by_agent, now) IN
       /\ r.store # Store
       /\ jobs' = r.store.jobs
       /\ queue_by_status' = r.store.queue_by_status
       /\ queue_by_pool' = r.store.queue_by_pool
       /\ retries' = RetriesAfter(r.store)
       /\ UNCHANGED session_vars
       /\ UNCHANGED <<now, calls, last_claimant>>

\* the agent reports the outcome of a RUNNING job
AgentCompletes(job_id) ==
    /\ job_id \in 1..Len(jobs)
    /\ jobs[job_id].status = RUNNING
    /\ \E a \in CompleteArgs :
        LET r == complete_job(Store, job_id, a.exit_code, a.duration_seconds,
                              a.error_message, now) IN
        /\ r.store # Store
        /\ jobs' = r.store.jobs
        /\ queue_by_status' = r.store.queue_by_status
        /\ queue_by_pool' = r.store.queue_by_pool
        /\ retries' = RetriesAfter(r.store)
        /\ UNCHANGED session_vars
        /\ UNCHANGED <<now, calls, last_claimant>>

\* the retry decision on a FAILED job
RetryDecision(job_id) ==
    /\ job_id \in 1..Len(jobs)
    /\ jobs[job_id].status = FAILED
    /\ LET r == retry_failed_job(Store, job_id) IN
       /\ r.store # Store
       /\ jobs' = r.store.jobs
       /\ queue_by_status' = r.store.queue_by_status
       /\ queue_by_pool' = r.store.queue_by_pool
       /\ retries' = RetriesAfter(r.store)
       /\ UNCHANGED session_vars
       /\ UNCHANGED <<now, calls, last_claimant>>

Sweep ==
    LET r == requeue_expired_leases(Store, now) IN
    /\ r.store # Store
    /\ jobs' = r.store.jobs
    /\ queue_by_status' = r.store.queue_by_status
    /\ queue_by_pool' = r.store.queue_by_pool
    /\ retries' = RetriesAfter(r.store)
    /\ UNCHANGED session_vars
    /\ UNCHANGED <<now, calls, last_claimant>>

ProtocolNext ==
    \/ Submit
    \/ \E pool_name \in Pools : AgentClaims(pool_name)
    \/ \E job_id \in JobIds : AgentStarts(job_id)
    \/ \E job_id \in JobIds : AgentCompletes(job_id)
    \/ \E job_id \in JobIds : RetryDecision(job_id)
    \/ Sweep
    \/ Tick

\* every claimed job is eventually started and completed (strong fairness:
\* a lease that expires and is swept takes the job from its agent for a
\* while), every failure is followed by the retry decision, claims and
\* sweeps are fair
ProtocolFairness ==
    /\ \A pool_name \in Pools : WF_vars(AgentClaims(pool_name))
    /\ \A job_id \in JobIds : SF_vars(AgentStarts(job_id))
    /\ \A job_id \in JobIds : SF_vars(AgentCompletes(job_id))
    /\ \A job_id \in JobIds : WF_vars(RetryDecision(job_id))
    /\ WF_vars(Sweep)

LiveSpec == Init /\ [][ProtocolNext]_vars /\ ProtocolFairness

\* C38 (bound): over a job's whole life the number of FAILED -> QUEUED retry
\* transitions is at most max_attempts - 1.
C38_RetryBound ==
    \A j \in JobSet : retries[j] <= jobs[j].max_attempts - 1

\* C38 (bound, for a job whose max_attempts is at least 1)
C38_RetryBoundPositive ==
    \A j \in JobSet :
        jobs[j].max_attempts >= 1 => retries[j] <= jobs[j].max_attempts - 1

\* C38 (termination): under the protocol's fairness every enqueued job
\* eventually reaches COMPLETED or DEAD_LETTERED.
C38_EveryJobEnds ==
    \A j \in JobIds :
        (j \in JobSet) ~> (j \in JobSet /\ jobs[j].status \in {COMPLETED, DEAD_LETTERED})

\* ======================================================================
\* The session store
\* ======================================================================
SessionInit ==
    /\ jobs = <<>>
    /\ queue_by_status = [s \in JobQueueStatus |-> <<>>]
    /\ queue_by_pool = [p \in Pools |-> <<>>]
    /\ now = 0
    /\ calls = 0
    /\ last_claimant = <<>>
    /\ retries = <<>>
    /\ \E ttl \in SessionTtls : SessionStoreInit(ttl)

CreateSession ==
    \E user_id \in Users :
        LET r == create_session(sessions, Len(issued) + 1, user_id,
                                ttl_seconds, unix_now) IN
        /\ Len(issued) < MaxSessions
        /\ sessions' = r.store
        /\ issued' = Append(issued, r.store[r.result])
        /\ UNCHANGED <<unix_now, ttl_seconds, invalidated>>
        /\ UNCHANGED queue_vars

\* a validation that finds a live session, or none, changes nothing
ValidateSession ==
    \E session_id \in SessionIds :
        LET r == validate_session(sessions, session_id, unix_now) IN
        /\ r.store # sessions
        /\ sessions' = r.store
        /\ UNCHANGED <<unix_now, ttl_seconds, issued, invalidated>>
        /\ UNCHANGED queue_vars

InvalidateSession ==
    \E session_id \in SessionIds :
        LET r == invalidate_session(sessions, session_id) IN
        /\ r.result
        /\ sessions' = r.store
        /\ invalidated' = invalidated \cup {session_id}
        /\ UNCHANGED <<unix_now, ttl_seconds, issued>>
        /\ UNCHANGED queue_vars

GetUserSessions ==
    \E user_id \in Users :
        LET r == get_user_sessions(sessions, user_id, unix_now) IN
        /\ r.store # sessions
        /\ sessions' = r.store
        /\ UNCHANGED <<unix_now, ttl_seconds, issued, invalidated>>
        /\ UNCHANGED queue_vars

UnixTick ==
    /\ unix_now < MaxUnixTime
    /\ unix_now' = unix_now + 1
    /\ UNCHANGED <<sessions, ttl_seconds, issued, invalidated>>
    /\ UNCHANGED queue_vars

SessionNext ==
    \/ CreateSession
    \/ ValidateSession
    \/ InvalidateSession
    \/ GetUserSessions
    \/ UnixTick

SessionSpec == SessionInit /\ [][SessionNext]_vars

\* C39: validate_session returns a session only if it was created, has not
\* been invalidated and has not expired (now < expires_at); once a session
\* is invalidated or has expired, validate_session returns nothing for it,
\* and validating an expired session removes it from the store.
C39_ValidateSession ==
    \A s \in SessionIds :
        LET r == validate_session(sessions, s, unix_now) IN
        /\ r.result # None =>
               /\ r.result = s
               /\ s \in 1..Len(issued)
               /\ r.store[s] = issued[s]
               /\ s \notin invalidated
               /\ unix_now < issued[s].expires_at
        /\ s \in invalidated => r.result = None
        /\ (s \in 1..Len(issued) /\ unix_now >= issued[s].expires_at) =>
               /\ r.result = None
               /\ s \notin DOMAIN r.store

\* one session is live and returned, one was invalidated, one has expired
\* and is still stored until its validation removes it
C39_Witness ==
    /\ \E s \in SessionIds : validate_session(sessions, s, unix_now).result = s
    /\ \E s \in invalidated : validate_session(sessions, s, unix_now).result = None
    /\ \E s \in DOMAIN sessions :
           /\ unix_now >= issued[s].expires_at
           /\ validate_session(sessions, s, unix_now).store # sessions

====
